---- MODULE Spec2Model ----
(***************************************************************************)
(* Model of pewpew (src/src/main.rs): an RTIC application for the nRF52840 *)
(* whose TIMER1 interrupt handler renders a 64x64 cosine pattern into a    *)
(* byte buffer, blits it to four tile offsets of an ST7735 display,        *)
(* increments a frame counter and re-arms the timer.                       *)
(*                                                                         *)
(* TLC's integers are 32 bits wide and signed, so the u32 frame counter is *)
(* kept as two 16-bit limbs and the f32 arithmetic of the handler is kept  *)
(* as mantissa/exponent pairs and as fixed point with 24 fraction bits.    *)
(***************************************************************************)
EXTENDS Integers, Naturals, Sequences, FiniteSets, TLC

(***************************************************************************)
(* Program constants                                                       *)
(***************************************************************************)
SCREEN_WIDTH == 64

SCREEN_HEIGHT == 64

\* [u8; SCREEN_HEIGHT * SCREEN_WIDTH * 2]
BufLen == SCREEN_HEIGHT * SCREEN_WIDTH * 2

\* let interval = 1_000;
interval == 1000

(***************************************************************************)
(* u32: the frame counter, as limbs hi * 2^16 + lo                         *)
(***************************************************************************)
Limb == 65536

U32OfNat(n) == [hi |-> (n \div Limb) % Limb, lo |-> n % Limb]

\* Faulty variant: saturating_add(1).
SaturatingAdd1(u) ==
    IF u.hi = Limb - 1 /\ u.lo = Limb - 1 THEN u
    ELSE IF u.lo + 1 < Limb
    THEN [hi |-> u.hi, lo |-> u.lo + 1]
    ELSE [hi |-> u.hi + 1, lo |-> 0]

\* u32::wrapping_add(1)
WrappingAdd1(u) ==
    IF u.lo + 1 < Limb
    THEN [hi |-> u.hi, lo |-> u.lo + 1]
    ELSE [hi |-> (u.hi + 1) % Limb, lo |-> 0]

RECURSIVE WrappingAddN(_, _)
WrappingAddN(u, n) == IF n = 0 THEN u ELSE WrappingAddN(WrappingAdd1(u), n - 1)

(***************************************************************************)
(* f32: a non-negative value is [m, e], meaning m * 2^e, with m < 2^24     *)
(* (the 24-bit significand).  Results are rounded to nearest, ties to even. *)
(***************************************************************************)
Mant == 16777216

\* The number of low bits n (< 2^31) loses to fit a 24-bit significand.
DropBits(n) == CHOOSE s \in 0..7 : n \div (2^s) < Mant /\ (s = 0 \/ n \div (2^(s-1)) >= Mant)

\* n * 2^e rounded to f32.
RoundF32(n, e) ==
    LET s    == DropBits(n)
        q    == n \div (2^s)
        rem  == n % (2^s)
        half == IF s = 0 THEN 1 ELSE 2^(s-1)
        up   == s > 0 /\ (rem > half \/ (rem = half /\ q % 2 = 1))
        q1   == IF up THEN q + 1 ELSE q
    IN  IF q1 = Mant THEN [m |-> Mant \div 2, e |-> e + s + 1]
                     ELSE [m |-> q1, e |-> e + s]

\* `*t as f32`
U32AsF32(u) ==
    IF u.hi < 32768
    THEN RoundF32(u.hi * Limb + u.lo, 0)
    ELSE LET q   == u.hi * 256 + u.lo \div 256
             rem == u.lo % 256
             up  == rem > 128 \/ (rem = 128 /\ q % 2 = 1)
             q1  == IF up THEN q + 1 ELSE q
         IN  IF q1 = Mant THEN [m |-> Mant \div 2, e |-> 9]
                          ELSE [m |-> q1, e |-> 8]

\* a + k/64 in f32, for the addends the handler uses: k/64 is x or y (k < 64)
\* or one of the literals 0.0, 2.0, 4.0 (k = 0, 128, 256).  Below 2^24 the sum
\* is formed exactly in 64ths and rounded; from 2^24 on (e >= 1) an addend
\* under 1 is less than half a unit in the last place and is absorbed, a
\* whole addend is added exactly and rounded; from 2^30 on (e >= 7) every
\* addend is absorbed.
AddF32(a, k) ==
    IF a.e <= 0 THEN RoundF32(a.m * (2^(a.e + 6)) + k, -6)
    ELSE IF a.e <= 6 /\ k % 64 = 0 THEN RoundF32(a.m * (2^(a.e)) + k \div 64, 0)
    ELSE a

(***************************************************************************)
(* Fixed point with 24 fraction bits (the spacing of f32 just below 1.0),  *)
(* for the cosine and the colour channels.                                 *)
(***************************************************************************)
One == 16777216

\* floor(a * b / 2^24) for 0 <= a, b < 2^26, without leaving 32 bits.
MulFx(a, b) ==
    LET ah == a \div 4096
        al == a % 4096
        bh == b \div 4096
        bl == b % 4096
    IN  ah * bh + (ah * bl + al * bh + (al * bl) \div 4096) \div 4096

\* 2 pi, pi and pi / 2 with 24 fraction bits.
TwoPiFx == 105414357

PiFx == 52707179

HalfPiFx == 26353589

\* 2^p mod 2 pi with 24 fraction bits, for p = 3 .. 32.
Pow2ModTab ==
    << 28803371, 57606742, 9799127, 19598253, 39196507, 78393013, 51371670,
       102743339, 100072321, 94730286, 84046214, 62678071, 19941786, 39883572,
       79767143, 54119929, 2825502, 5651003, 11302006, 22604012, 45208024,
       90416048, 75417740, 45421122, 90842244, 76270131, 47125905, 94251809,
       83089261, 60764165 >>

Pow2Mod(p) == IF p <= 2 THEN 2^(24 + p) ELSE Pow2ModTab[p - 2]

\* The argument reduction of cosf: (m * 2^p) mod 2 pi, bit by bit.
RECURSIVE Reduce(_, _)
Reduce(m, p) ==
    IF m = 0 THEN 0
    ELSE ((m % 2) * Pow2Mod(p) + Reduce(m \div 2, p + 1)) % TwoPiFx

\* 1 - y^2/2! + y^4/4! - ... for 0 <= y <= pi/2, the k-th term given.
RECURSIVE Series(_, _, _)
Series(term, y2, k) ==
    IF term = 0 \/ k > 8 THEN 0
    ELSE term - Series(MulFx(term, y2) \div ((2 * k + 1) * (2 * k + 2)), y2, k + 1)

CosQuadrant(y) == Series(One, MulFx(y, y), 0)

\* Float::cos of a non-negative f32, in [-One, One].
Cos(f) ==
    LET y == Reduce(f.m, f.e)
        z == IF y > PiFx THEN TwoPiFx - y ELSE y
    IN  IF z > HalfPiFx THEN 0 - CosQuadrant(PiFx - z) ELSE CosQuadrant(z)

\* 0.5 + 0.5 * c: halving is exact, the sum is rounded to nearest, ties to even.
HalfPlusHalf(c) ==
    LET n == One + c
        q == n \div 2
    IN  IF n % 2 = 1 /\ q % 2 = 1 THEN q + 1 ELSE q

\* `as u16` of a float: truncation toward zero, saturating at the type's range.
AsU16(f) ==
    LET v == IF f.e >= 0 THEN f.m * (2^(f.e)) ELSE f.m \div (2^(0 - f.e))
    IN  IF v < 0 THEN 0 ELSE IF v > 65535 THEN 65535 ELSE v

\* Faulty variant: a channel scaled by 2^bits instead of 2^bits - 1.
QuantizeFullScale(c, scale) == AsU16(RoundF32(c * (scale + 1), -24))

\* (c * scale) as u16 for a channel c in [0, One]: the f32 product, then the cast.
Quantize(c, scale) == AsU16(RoundF32(c * scale, -24))

\* x = i as f32 / SCREEN_HEIGHT as f32 in 64ths is i itself (SCREEN_HEIGHT = 64).
Channel(t, k, phase) == HalfPlusHalf(Cos(AddF32(AddF32(U32AsF32(t), k), phase * 64)))

R5(t, i) == Quantize(Channel(t, (i * 64) \div SCREEN_HEIGHT, 0), 31)

G6(t, j) == Quantize(Channel(t, (j * 64) \div SCREEN_WIDTH, 2), 63)

B5(t, i) == Quantize(Channel(t, (i * 64) \div SCREEN_HEIGHT, 4), 31)

\* Faulty variant: red and blue exchanged in the word.
PackSwapped(r5, g6, b5) == ((((r5 * 2048) % 65536) + ((g6 * 32) % 65536) + b5) % 65536)

\* let x = (b5 << 11) + (g6 << 5) + r5;  (u16)
Pack(r5, g6, b5) == ((((b5 * 2048) % 65536) + ((g6 * 32) % 65536) + r5) % 65536)

\* Faulty variant: x.to_be_bytes()
ToBeBytes(w) == << w \div 256, w % 256 >>

\* x.to_le_bytes()
ToLeBytes(w) == << w % 256, w \div 256 >>

\* Faulty variant: the factor 2 applied to the column only.
PixelIndexColumn(i, j) == i * SCREEN_HEIGHT + j * 2

\* bytes[(i * SCREEN_HEIGHT + j) * 2 + 0]
PixelIndex(i, j) == (i * SCREEN_HEIGHT + j) * 2

\* The two bytes the handler stores for pixel (i, j) of frame t.
PixelBytes(t, i, j) == ToLeBytes(Pack(R5(t, i), G6(t, j), B5(t, i)))

\* Faulty variant: the tiles on a square grid of step 67.
TileOffsetsSquare == << <<0, 0>>, <<67, 0>>, <<0, 67>>, <<67, 67>> >>

\* disp.set_offset(..) of the four draws, in program order.
TileOffsets == << <<0, 0>>, <<67, 0>>, <<0, 66>>, <<67, 66>> >>

\* timer.fire_at(1, 1000) at the end of the handler.
RearmChannel == 1

\* Faulty variant: the interval shortened by the handler.
RearmIntervalShort == interval - 1

RearmInterval == 1000

\* timer1.fire_at(1, interval) in init; timer.ack_compare_event(1).
InitChannel == 1

AckChannel == 1

\* Faulty variant: the acknowledge moved behind the render loop.
HandlerOrderLateAck == << "render", "ack", "blit", "incr", "arm" >>

\* Faulty variant: the acknowledge left out.
HandlerOrderNoAck == << "render", "blit", "incr", "arm" >>

\* The statements of the handler, in program order.
\* Faulty variant: the blits issued before the buffer is recomputed.
HandlerOrderBlitFirst == <<"ack", "blit", "render", "incr", "arm">>

\* Faulty variant: the handler returns without re-arming.
HandlerOrderNoArm == <<"ack", "render", "blit", "incr">>

\* Faulty variant: the re-arm moved to the top of the handler.
HandlerOrderArmFirst == <<"arm", "ack", "render", "blit", "incr">>

HandlerOrder == << "ack", "render", "blit", "incr", "arm" >>

\* Faulty variant: the result dropped (let _ = ..).
IgnoreResult(ok) == TRUE

\* Result::unwrap: TRUE when the handler goes on, FALSE when it panics.
Unwrap(ok) == ok

\* Timer::ack_compare_event(ch) on the event flag ev (0: clear, else the
\* channel whose compare fired): the flag of channel ch is cleared.
AckCompareEvent(ev, ch) == IF ev = ch THEN 0 ELSE ev

(***************************************************************************)
(* Bounds of the model                                                     *)
(***************************************************************************)
\* Compare events the timer delivers in one behaviour.
MaxFires == 3

(***************************************************************************)
(* State                                                                   *)
(***************************************************************************)
VARIABLES
    pc,         \* the background context: init's position, then "idle"
    hpc,        \* the handler: 0 when not running, else its place in HandlerOrder
    sub,        \* the handler's place inside "blit": 2 * tile, + 1 once its offset is set
    fatal,      \* the panic handler has been entered
    failedAt,   \* the operation whose failure entered it
    intEnabled, \* interrupts are unmasked
    diag,       \* messages the panic handler has printed
    asleep,     \* idle is halted in wfi
    armed,      \* TIMER1: a compare is scheduled on channel 1
    event,      \* TIMER1: EVENTS_COMPARE[1] is set (the interrupt line)
    pending,    \* NVIC: TIMER1 is pending
    disp,       \* the display driver: [ready, offset]
    bytes,      \* Local.bytes
    t,          \* Local.t
    log,        \* the operations of the current (or last) handler invocation
    touched,    \* buffer indices the current (or last) render pass has stored to
    stores,     \* single-byte stores that pass has made
    armLog,     \* the fire_at calls made since the initial state
    fires,      \* compare events delivered since the initial state
    started,    \* handler invocations begun since the initial state
    frames      \* completed render cycles since boot, as 16-bit limbs [top, hi, lo]

vars == << pc, hpc, sub, fatal, failedAt, intEnabled, diag, asleep, armed, event,
           pending, disp, bytes, t, log, touched, stores, armLog, fires, started,
           frames >>

Stage == IF hpc = 0 THEN "none" ELSE HandlerOrder[hpc]

\* (f @@ <<>> is f, held by TLC as an explicit array rather than as a rule.)
ZeroBytes == [k \in 1..BufLen |-> 0] @@ << >>

\* One more completed cycle, counted without wrapping.
CountFrame(n) ==
    IF n.lo + 1 < Limb THEN [n EXCEPT !.lo = n.lo + 1]
    ELSE IF n.hi + 1 < Limb THEN [n EXCEPT !.lo = 0, !.hi = n.hi + 1]
    ELSE [top |-> n.top + 1, hi |-> 0, lo |-> 0]

\* Faulty variant: the stores add to the byte in place (+=) instead of replacing it.
RowFromAccumulate(acc, tt, i) ==
    LET px      == [j \in 0..(SCREEN_WIDTH - 1) |-> PixelBytes(tt, i, j)] @@ << >>
        slots   == 0..(2 * SCREEN_WIDTH - 1)
        at      == [n \in slots |-> PixelIndex(i, n \div 2) + (n % 2)] @@ << >>
        bad     == {n \in slots : at[n] >= BufLen}
        done    == IF bad = {} THEN slots
                   ELSE {n \in slots : \A m \in bad : n < m}
        hitIx   == {at[n] : n \in done}
        last    == [k \in hitIx |->
                       LET hits == {n \in done : at[n] = k}
                       IN  CHOOSE n \in hits : \A m \in hits : m <= n] @@ << >>
    IN  [b  |-> [k \in {x + 1 : x \in hitIx} |->
                     (acc.b[k] + px[last[k - 1] \div 2][(last[k - 1] % 2) + 1]) % 256] @@ acc.b,
         w  |-> acc.w \cup hitIx,
         n  |-> acc.n + Cardinality(done),
         ok |-> bad = {}]

\* One iteration of the outer loop makes 2 * SCREEN_WIDTH single-byte stores,
\* store n being byte n % 2 of pixel (i, n / 2).  A store whose index is outside
\* the array panics, so only the stores before the first such one happen.
\* RowFrom applies row i of frame tt to acc = [b, w, n, ok]: the buffer, the
\* set of indices stored to, the number of stores, and whether no store has
\* panicked.  The buffer is held as a sequence: byte ix of the array is b[ix + 1].
RowFrom(acc, tt, i) ==
    LET px      == [j \in 0..(SCREEN_WIDTH - 1) |-> PixelBytes(tt, i, j)] @@ << >>
        slots   == 0..(2 * SCREEN_WIDTH - 1)
        at      == [n \in slots |-> PixelIndex(i, n \div 2) + (n % 2)] @@ << >>
        bad     == {n \in slots : at[n] >= BufLen}
        done    == IF bad = {} THEN slots
                   ELSE {n \in slots : \A m \in bad : n < m}
        hitIx   == {at[n] : n \in done}
        last    == [k \in hitIx |->
                       LET hits == {n \in done : at[n] = k}
                       IN  CHOOSE n \in hits : \A m \in hits : m <= n] @@ << >>
    IN  [b  |-> [k \in {x + 1 : x \in hitIx} |->
                     px[last[k - 1] \div 2][(last[k - 1] % 2) + 1]] @@ acc.b,
         w  |-> acc.w \cup hitIx,
         n  |-> acc.n + Cardinality(done),
         ok |-> bad = {}]

\* for i in 0..SCREEN_HEIGHT { .. }: the rows in order, up to a panic.
RECURSIVE RenderFrom(_, _, _)
RenderFrom(acc, tt, i) ==
    IF i = SCREEN_HEIGHT \/ ~acc.ok THEN acc
    ELSE RenderFrom(RowFrom(acc, tt, i), tt, i + 1)

RenderPass(b, tt) == RenderFrom([b |-> b, w |-> {}, n |-> 0, ok |-> TRUE], tt, 0)

\* The buffer a whole render pass of frame tt leaves.
Rendered(tt) == RenderPass(ZeroBytes, tt).b

\* The set s, written as an interval when it is one.
Compact(s) == IF s = 0..(Cardinality(s) - 1) THEN 0..(Cardinality(s) - 1) ELSE s

(***************************************************************************)
(* Initial states.  The program boots with the counter at 0 and needs      *)
(* 2^32 - 2 completed cycles to bring it next to its maximum, so the model *)
(* also starts in the state the program is in after that many cycles:      *)
(* idle, the timer armed by the last invocation, the buffer holding the    *)
(* frame rendered from 2^32 - 3.  The history variables (log, touched,     *)
(* stores, armLog, fires, started) count from the initial state.           *)
(***************************************************************************)
\* Faulty variant: init entered with interrupts unmasked.
BootStateUnmasked ==
    /\ pc = "timer"
    /\ intEnabled = TRUE
    /\ asleep = FALSE
    /\ armed = 0
    /\ disp = [ready |-> FALSE, offset |-> <<0, 0>>]
    /\ bytes = ZeroBytes
    /\ t = U32OfNat(0)
    /\ frames = [top |-> 0, hi |-> 0, lo |-> 0]

BootState ==
    /\ pc = "timer"
    /\ intEnabled = FALSE
    /\ asleep = FALSE
    /\ armed = 0
    /\ disp = [ready |-> FALSE, offset |-> <<0, 0>>]
    /\ bytes = ZeroBytes
    /\ t = U32OfNat(0)
    /\ frames = [top |-> 0, hi |-> 0, lo |-> 0]

LateState ==
    /\ pc = "idle"
    /\ intEnabled = TRUE
    /\ asleep = TRUE
    /\ armed = RearmChannel
    /\ disp = [ready |-> TRUE, offset |-> TileOffsets[Len(TileOffsets)]]
    /\ bytes = Rendered([hi |-> Limb - 1, lo |-> Limb - 3])
    /\ t = [hi |-> Limb - 1, lo |-> Limb - 2]
    /\ frames = [top |-> 0, hi |-> Limb - 1, lo |-> Limb - 2]

Init ==
    /\ hpc = 0
    /\ sub = 0
    /\ fatal = FALSE
    /\ failedAt = "none"
    /\ diag = 0
    /\ event = 0
    /\ pending = FALSE
    /\ log = << >>
    /\ touched = {}
    /\ stores = 0
    /\ armLog = << >>
    /\ fires = 0
    /\ started = 0
    /\ (BootState \/ LateState)

(***************************************************************************)
(* The panic handler: interrupt::disable(), rprintln!, loop {}             *)
(***************************************************************************)
\* Faulty variant: the panic handler without interrupt::disable().
PanicNoDisable(what) ==
    /\ fatal' = TRUE
    /\ failedAt' = what
    /\ intEnabled' = intEnabled
    /\ diag' = diag + 1

Panic(what) ==
    /\ fatal' = TRUE
    /\ failedAt' = what
    /\ intEnabled' = FALSE
    /\ diag' = diag + 1

NoPanic == UNCHANGED << fatal, failedAt, intEnabled, diag >>

(***************************************************************************)
(* init                                                                    *)
(***************************************************************************)
\* timer1.init(); timer1.fire_at(1, interval);
InitTimer ==
    /\ pc = "timer" /\ ~fatal
    /\ pc' = "disp_init"
    /\ armed' = InitChannel
    /\ event' = 0
    /\ pending' = FALSE
    /\ armLog' = Append(armLog, [channel |-> InitChannel, ticks |-> interval, by |-> "init"])
    /\ NoPanic
    /\ UNCHANGED << hpc, sub, asleep, disp, bytes, t, log, touched, stores, fires,
                    started, frames >>

\* disp.init(&mut delay).unwrap();
InitDisplay ==
    /\ pc = "disp_init" /\ ~fatal
    /\ \E ok \in BOOLEAN :
          IF Unwrap(ok)
          THEN /\ pc' = "orientation"
               /\ disp' = [disp EXCEPT !.ready = TRUE]
               /\ NoPanic
          ELSE /\ Panic("disp.init")
               /\ UNCHANGED << pc, disp >>
    /\ UNCHANGED << hpc, sub, asleep, armed, event, pending, bytes, t, log, touched, stores, armLog, fires, started, frames >>

\* disp.set_orientation(&Orientation::LandscapeSwapped).unwrap();
InitOrientation ==
    /\ pc = "orientation" /\ ~fatal
    /\ \E ok \in BOOLEAN :
          IF Unwrap(ok)
          THEN pc' = "clear" /\ NoPanic
          ELSE Panic("set_orientation") /\ UNCHANGED pc
    /\ UNCHANGED << hpc, sub, asleep, armed, event, pending, disp, bytes, t, log,
                    touched, stores, armLog, fires, started, frames >>

\* disp.set_offset(0, 0); disp.clear(Rgb565::BLACK).unwrap();
InitClear ==
    /\ pc = "clear" /\ ~fatal
    /\ disp' = [disp EXCEPT !.offset = <<0, 0>>]
    /\ \E ok \in BOOLEAN :
          IF Unwrap(ok)
          THEN pc' = "return" /\ NoPanic
          ELSE Panic("clear") /\ UNCHANGED pc
    /\ UNCHANGED << hpc, sub, asleep, armed, event, pending, bytes, t, log, touched, stores, armLog, fires, started, frames >>

\* Local { timer1, disp, bytes: [0; ..], t: 0 } is returned; RTIC then unmasks
\* interrupts and enters idle.
InitReturn ==
    /\ pc = "return" /\ ~fatal
    /\ pc' = "idle"
    /\ bytes' = ZeroBytes
    /\ t' = U32OfNat(0)
    /\ intEnabled' = TRUE
    /\ UNCHANGED << hpc, sub, fatal, failedAt, diag, asleep, armed, event, pending,
                    disp, log, touched, stores, armLog, fires, started, frames >>

(***************************************************************************)
(* idle: loop { wfi }                                                      *)
(***************************************************************************)
\* Faulty variant: an idle loop that also advances the frame counter.
IdleCounts ==
    /\ pc = "idle" /\ ~fatal /\ hpc = 0
    /\ ~asleep /\ ~pending
    /\ asleep' = TRUE
    /\ t' = WrappingAdd1(t)
    /\ UNCHANGED << pc, hpc, sub, fatal, failedAt, intEnabled, diag, armed, event,
                    pending, disp, bytes, log, touched, stores, armLog, fires,
                    started, frames >>

Idle ==
    /\ pc = "idle" /\ ~fatal /\ hpc = 0
    /\ ~asleep /\ ~pending
    /\ asleep' = TRUE
    /\ UNCHANGED << pc, hpc, sub, fatal, failedAt, intEnabled, diag, armed, event,
                    pending, disp, bytes, t, log, touched, stores, armLog, fires,
                    started, frames >>

(***************************************************************************)
(* TIMER1 and the interrupt controller                                     *)
(***************************************************************************)
\* The scheduled compare matches: the one-shot is spent, the event flag is
\* set and the interrupt becomes pending.
TimerFire ==
    /\ armed # 0
    /\ fires < MaxFires
    /\ event' = armed
    /\ armed' = 0
    /\ pending' = TRUE
    /\ fires' = fires + 1
    /\ UNCHANGED << pc, hpc, sub, fatal, failedAt, intEnabled, diag, asleep, disp,
                    bytes, t, log, touched, stores, armLog, started, frames >>

\* The handler is entered: TIMER1 pending, interrupts unmasked, and the handler
\* (which its own interrupt cannot preempt) not running.
HandlerEnter ==
    /\ pending /\ intEnabled /\ hpc = 0
    /\ hpc' = 1
    /\ sub' = 0
    /\ pending' = FALSE
    /\ asleep' = FALSE
    /\ log' = << >>
    /\ touched' = {}
    /\ stores' = 0
    /\ started' = started + 1
    /\ UNCHANGED << pc, fatal, failedAt, intEnabled, diag, armed, event, disp,
                    bytes, t, armLog, fires, frames >>

\* The handler moves to its next statement; after the last it returns, and the
\* interrupt is pending again if its line (the event flag ev) is still asserted.
Advance(ev) ==
    /\ hpc' = IF hpc = Len(HandlerOrder) THEN 0 ELSE hpc + 1
    /\ pending' = IF hpc = Len(HandlerOrder) THEN (pending \/ ev # 0) ELSE pending

(***************************************************************************)
(* timer1: the TIMER1 handler, statement by statement                      *)
(***************************************************************************)
\* timer.ack_compare_event(1);
Ack ==
    /\ Stage = "ack" /\ ~fatal
    /\ event' = AckCompareEvent(event, AckChannel)
    /\ Advance(AckCompareEvent(event, AckChannel))
    /\ sub' = 0
    /\ log' = Append(log, <<"ack", AckChannel, 0>>)
    /\ NoPanic
    /\ UNCHANGED << pc, asleep, armed, disp, bytes, t, touched, stores, armLog,
                    fires, started, frames >>

\* for i in 0..SCREEN_HEIGHT { for j in 0..SCREEN_WIDTH { .. } }: the whole
\* render loop.  An index outside the array panics.
Render ==
    /\ Stage = "render" /\ ~fatal
    /\ \E acc \in {RenderPass(bytes, t)} :
           /\ bytes' = acc.b
           /\ touched' = Compact(acc.w)
           /\ stores' = acc.n
           /\ IF acc.ok
              THEN NoPanic /\ Advance(event)
              ELSE Panic("index") /\ UNCHANGED << hpc, pending >>
    /\ sub' = 0
    /\ log' = Append(log, <<"render", 0, 0>>)
    /\ UNCHANGED << pc, asleep, armed, event, disp, t, armLog, fires, started, frames >>

\* disp.set_offset(x, y);
SetOffset ==
    /\ Stage = "blit" /\ ~fatal
    /\ sub % 2 = 0
    /\ LET o == TileOffsets[sub \div 2 + 1]
       IN  /\ disp' = [disp EXCEPT !.offset = o]
           /\ log' = Append(log, <<"set_offset", o[1], o[2]>>)
    /\ sub' = sub + 1
    /\ NoPanic
    /\ UNCHANGED << pc, hpc, asleep, armed, event, pending, bytes, t, touched, stores,
                    armLog, fires, started, frames >>

\* image.draw(disp).unwrap();  The fourth draw completes the render cycle.
Draw ==
    /\ Stage = "blit" /\ ~fatal
    /\ sub % 2 = 1
    /\ \E ok \in BOOLEAN :
          /\ log' = Append(log, << IF ok THEN "draw" ELSE "draw_failed",
                                   disp.offset[1], disp.offset[2] >>)
          /\ IF Unwrap(ok)
             THEN /\ NoPanic
                  /\ IF sub = 2 * Len(TileOffsets) - 1
                     THEN sub' = 0 /\ Advance(event) /\ frames' = CountFrame(frames)
                     ELSE sub' = sub + 1 /\ UNCHANGED << hpc, pending, frames >>
             ELSE /\ Panic("draw")
                  /\ UNCHANGED << hpc, sub, pending, frames >>
    /\ UNCHANGED << pc, asleep, armed, event, disp, bytes, t, touched, stores, armLog,
                    fires, started >>

\* *t = t.wrapping_add(1);
Incr ==
    /\ Stage = "incr" /\ ~fatal
    /\ t' = WrappingAdd1(t)
    /\ log' = Append(log, <<"incr", 0, 0>>)
    /\ sub' = 0
    /\ Advance(event)
    /\ NoPanic
    /\ UNCHANGED << pc, asleep, armed, event, disp, bytes, touched, stores, armLog,
                    fires, started, frames >>

\* let _ = timer.fire_at(1, 1000);
Arm ==
    /\ Stage = "arm" /\ ~fatal
    /\ armed' = RearmChannel
    /\ armLog' = Append(armLog, [channel |-> RearmChannel, ticks |-> RearmInterval, by |-> "timer1"])
    /\ log' = Append(log, <<"arm", RearmChannel, RearmInterval>>)
    /\ sub' = 0
    /\ Advance(event)
    /\ NoPanic
    /\ UNCHANGED << pc, asleep, event, disp, bytes, t, touched, stores, fires, started,
                    frames >>

Next ==
    \/ InitTimer
    \/ InitDisplay
    \/ InitOrientation
    \/ InitClear
    \/ InitReturn
    \/ Idle
    \/ TimerFire
    \/ HandlerEnter
    \/ Ack
    \/ Render
    \/ SetOffset
    \/ Draw
    \/ Incr
    \/ Arm

Spec == Init /\ [][Next]_vars

(***************************************************************************)
(* Progress.  The processor executes the next statement of init and of a   *)
(* running handler; an armed compare eventually matches; a pending,        *)
(* unmasked interrupt is eventually taken.                                 *)
(***************************************************************************)
\* A statement of init or of a running handler can be executed: init has not
\* returned, or an invocation is in progress, and the program has not panicked.
ProgramEnabled == ~fatal /\ (pc # "idle" \/ hpc # 0)

\* A statement of init or of the handler is executed: every one of them moves
\* the program's position (or panics), and while ProgramEnabled holds no
\* other step does.
ProgramMoves ==
    ProgramEnabled /\ << pc, hpc, sub, fatal >>' # << pc, hpc, sub, fatal >>

\* Weak fairness of the program's statements (ProgramEnabled is the enabling
\* condition of ProgramMoves), of the compare match and of the interrupt entry.
Fairness ==
    /\ ([]<>(~ProgramEnabled) \/ []<><<ProgramMoves>>_vars)
    /\ WF_vars(TimerFire)
    /\ WF_vars(HandlerEnter)

SpecLive == Init /\ [][Next]_vars /\ Fairness

(***************************************************************************)
(* The program with a re-arm that may report a failure.  fire_at belongs   *)
(* to the timer module; what a failed call leaves behind is taken to be    *)
(* nothing scheduled.  The handler binds the result to _ and goes on.      *)
(***************************************************************************)
\* let _ = <result>: TRUE when the handler goes on, whatever the result.
Discard(ok) == TRUE

\* let _ = timer.fire_at(1, 1000); with the call's result ok.
ArmReport ==
    /\ Stage = "arm" /\ ~fatal
    /\ \E ok \in BOOLEAN :
          /\ armed' = IF ok THEN RearmChannel ELSE armed
          /\ log' = Append(log, << IF ok THEN "arm" ELSE "arm_failed",
                                   RearmChannel, RearmInterval >>)
          /\ IF Discard(ok)
             THEN NoPanic /\ Advance(event) /\ sub' = 0
             ELSE Panic("fire_at") /\ UNCHANGED << hpc, pending, sub >>
    /\ armLog' = Append(armLog, [channel |-> RearmChannel, ticks |-> RearmInterval, by |-> "timer1"])
    /\ UNCHANGED << pc, asleep, event, disp, bytes, t, touched, stores, fires, started,
                    frames >>

NextArmFail ==
    \/ InitTimer
    \/ InitDisplay
    \/ InitOrientation
    \/ InitClear
    \/ InitReturn
    \/ Idle
    \/ TimerFire
    \/ HandlerEnter
    \/ Ack
    \/ Render
    \/ SetOffset
    \/ Draw
    \/ Incr
    \/ ArmReport

SpecArmFail == Init /\ [][NextArmFail]_vars

(***************************************************************************)
(* The render loops alone, one iteration of the outer loop per step, for   *)
(* frame counters the program needs many cycles to reach.  A behaviour     *)
(* starts where an invocation has acknowledged the compare event and is    *)
(* about to render: on the first invocation after boot, or on the one      *)
(* after a cycle that ran with the counter at p.                           *)
(***************************************************************************)
\* Counters of the cycle before the one rendered: the successors include a
\* channel at its maximum (48), arguments whose cosine is -1.0 (353, 355), the
\* largest counter and its wrap to 0.
PrevSamples ==
    { U32OfNat(47), U32OfNat(352), U32OfNat(354),
      [hi |-> Limb - 1, lo |-> Limb - 2], [hi |-> Limb - 1, lo |-> Limb - 1] }

RenderStage == CHOOSE n \in DOMAIN HandlerOrder : HandlerOrder[n] = "render"

InitRender ==
    /\ pc = "idle"
    /\ hpc = RenderStage
    /\ sub = 0
    /\ fatal = FALSE
    /\ failedAt = "none"
    /\ intEnabled = TRUE
    /\ diag = 0
    /\ asleep = FALSE
    /\ armed = 0
    /\ event = 0
    /\ pending = FALSE
    /\ log = << <<"ack", AckChannel, 0>> >>
    /\ touched = {}
    /\ stores = 0
    /\ armLog = << >>
    /\ fires = 1
    /\ started = 1
    /\ \/ /\ t = U32OfNat(0)
          /\ frames = [top |-> 0, hi |-> 0, lo |-> 0]
          /\ bytes = ZeroBytes
          /\ disp = [ready |-> TRUE, offset |-> <<0, 0>>]
       \/ \E p \in PrevSamples :
             /\ t = WrappingAdd1(p)
             /\ frames = CountFrame([top |-> 0, hi |-> p.hi, lo |-> p.lo])
             /\ bytes = Rendered(p)
             /\ disp = [ready |-> TRUE, offset |-> TileOffsets[Len(TileOffsets)]]

\* for i in 0..SCREEN_HEIGHT { for j in 0..SCREEN_WIDTH { .. } }: iteration
\* i = sub of the outer loop; the last one leaves the loops.
RenderRow ==
    /\ Stage = "render" /\ ~fatal
    /\ sub < SCREEN_HEIGHT
    /\ \E acc \in {RowFrom([b |-> bytes, w |-> touched, n |-> stores, ok |-> TRUE], t, sub)} :
           /\ bytes' = acc.b
           /\ touched' = Compact(acc.w)
           /\ stores' = acc.n
           /\ IF ~acc.ok
              THEN Panic("index") /\ UNCHANGED << hpc, pending, sub, log >>
              ELSE /\ NoPanic
                   /\ IF sub + 1 = SCREEN_HEIGHT
                      THEN /\ Advance(event)
                           /\ sub' = 0
                           /\ log' = Append(log, <<"render", 0, 0>>)
                      ELSE /\ sub' = sub + 1
                           /\ UNCHANGED << hpc, pending, log >>
    /\ UNCHANGED << pc, asleep, armed, event, disp, t, armLog, fires, started, frames >>

NextRender == RenderRow

SpecRender == InitRender /\ [][NextRender]_vars

(***************************************************************************)
(* Properties                                                              *)
(***************************************************************************)
\* The handler has returned normally at least once: log is that invocation's.
Completed == hpc = 0 /\ started > 0 /\ ~fatal

Positions(kind) == {n \in 1..Len(log) : log[n][1] = kind}

Blits == Positions("draw") \cup Positions("draw_failed")

\* The blits of one invocation go, in order, to the offsets `tiles`, each
\* right after a set_offset to the same offset; a completed invocation has
\* issued exactly Len(tiles) of them, none failed.
BlitsFollow(tiles) ==
    /\ \A n \in Blits :
          /\ n > 1
          /\ log[n - 1] = <<"set_offset", log[n][2], log[n][3]>>
          /\ LET k == Cardinality({m \in Blits : m <= n})
             IN  k <= Len(tiles) /\ <<log[n][2], log[n][3]>> = tiles[k]
    /\ Completed => Cardinality(Positions("draw")) = Len(tiles) /\ Blits = Positions("draw")

C2_AckFirst ==
    /\ \A n \in 1..Len(log) : (log[n][1] = "ack") <=> (n = 1)
    /\ log # << >> => log[1] = <<"ack", 1, 0>>
    /\ hpc # 0 /\ log # << >> /\ ~fatal => event = 0
    /\ hpc # 0 /\ log = << >> => stores = 0 /\ event = 1
    /\ Completed => Cardinality(Positions("ack")) = 1

C2_Witness == Completed /\ Positions("render") # {} /\ Positions("arm") # {}

\* C3: frames are strictly sequential.  While an invocation is past its
\* acknowledge and has not re-armed, no compare is scheduled, no event is set
\* and no interrupt is pending, so nothing can start another invocation; every
\* invocation answers a compare event of its own; and whenever the handler is
\* not running the last invocation has done its four blits, its increment and
\* its re-arm.
C3_Sequential ==
    /\ hpc \in 0..Len(HandlerOrder)
    /\ started <= fires
    /\ hpc # 0 /\ log # << >> /\ Positions("arm") = {} =>
          armed = 0 /\ event = 0 /\ ~pending
    /\ Completed =>
          /\ Cardinality(Positions("draw")) = 4
          /\ Cardinality(Positions("incr")) = 1
          /\ log[Len(log)][1] = "arm"
          /\ \A n \in Positions("draw") \cup Positions("incr") : n < Len(log)

C3_Witness == started = 2 /\ Stage = "blit" /\ sub > 0

\* C4: every completed invocation calls fire_at exactly once, as its last
\* operation, for channel 1 and 1000 ticks, the interval of the arm in init,
\* whatever the frame counter and the buffer hold; after init the timer is armed
\* by nothing but that call, once per completed invocation.
C4_RearmOnceLast ==
    /\ \A n \in Positions("arm") :
          n = Len(log) /\ log[n] = <<"arm", 1, 1000>> /\ hpc = 0
    /\ Completed => Cardinality(Positions("arm")) = 1
    /\ \A n \in 1..Len(armLog) :
          /\ armLog[n].channel = 1
          /\ armLog[n].ticks = 1000
          /\ armLog[n].ticks = armLog[1].ticks
          /\ armLog[n].by = "init" => n = 1 /\ pc # "timer"
    /\ Cardinality({n \in 1..Len(armLog) : armLog[n].by = "timer1"})
          = started - (IF hpc # 0 THEN 1 ELSE 0)
    /\ pc \notin {"timer", "idle"} => Len(armLog) = 1 /\ armLog[1].by = "init"

C4_Witness ==
    Completed /\ Len(armLog) = 3 /\ armLog[1].by = "init" /\ t = U32OfNat(2)

\* C5: the frame counter is the number of completed render cycles modulo
\* 2^32: 0 at boot, one more (wrapping) for each cycle and changed by nothing
\* else; the increment at 2^32 - 1 gives 0 and the handler goes on.
C5_CounterCountsCycles ==
    /\ IF Stage = "incr"
       THEN /\ (t.lo + 1) % 65536 = frames.lo
            /\ (t.hi + (IF t.lo = 65535 THEN 1 ELSE 0)) % 65536 = frames.hi
       ELSE t.lo = frames.lo /\ t.hi = frames.hi
    /\ t.lo \in 0..65535 /\ t.hi \in 0..65535
    /\ fatal => Stage \notin {"incr", "arm"}

C5_Witness ==
    /\ frames = [top |-> 1, hi |-> 0, lo |-> 0]
    /\ t = [hi |-> 0, lo |-> 0]
    /\ Stage = "arm" /\ ~fatal

\* C6: a failed blit is fatal.  It is the last operation of its invocation (no
\* retry, none of the remaining blits, no increment, no re-arm): the handler
\* never returns, the counter still is the number of completed cycles, no
\* compare is scheduled and no interrupt is pending.
C6_BlitFailureFatal ==
    /\ \A n \in Positions("draw_failed") :
          /\ fatal /\ failedAt = "draw"
          /\ n = Len(log)
          /\ Stage = "blit"
          /\ Cardinality(Blits) = sub \div 2 + 1
          /\ armed = 0 /\ event = 0 /\ ~pending
          /\ t.lo = frames.lo /\ t.hi = frames.hi
    /\ failedAt = "draw" => Positions("draw_failed") # {}

C6_Witness ==
    Positions("draw_failed") # {} /\ Cardinality(Positions("draw")) = 2 /\ fatal

\* C7: the fatal state is absorbing.  Entering it leaves interrupts disabled
\* and one message printed; from then on only the timer hardware moves: no
\* handler invocation starts or continues, the buffer, the counter, the display
\* and the arm history do not change.  After a failure in init no invocation
\* has run and none ever does.
C7_FatalAbsorbing ==
    [][ /\ fatal' => ~intEnabled' /\ diag' = 1
        /\ fatal => /\ fatal'
                    /\ UNCHANGED << pc, hpc, sub, failedAt, intEnabled, diag, asleep,
                                    disp, bytes, t, log, touched, stores, armLog,
                                    started, frames >>
        /\ fatal' /\ failedAt' \in {"disp.init", "set_orientation", "clear"} =>
              /\ started' = 0 /\ hpc' = 0 /\ log' = << >>
              /\ bytes' = ZeroBytes
              /\ Len(armLog') = 1
      ]_vars

C7_Witness == fatal /\ failedAt = "disp.init" /\ event = 1 /\ pending

\* Rows of the buffer that hold the frame of the current counter.
RowsDone ==
    IF Stage = "render" THEN sub ELSE IF Stage = "blit" THEN SCREEN_HEIGHT ELSE 0

\* The 16-bit word stored for pixel (i, j), low byte first.
StoredWord(i, j) == bytes[PixelIndex(i, j) + 1] + 256 * bytes[PixelIndex(i, j) + 2]

C9_FirstPixel ==
    (frames = [top |-> 0, hi |-> 0, lo |-> 0] /\ Stage = "blit") =>
        /\ t = U32OfNat(0)
        /\ R5(t, 0) = 31 /\ G6(t, 0) = 18 /\ B5(t, 0) = 5
        /\ Pack(R5(t, 0), G6(t, 0), B5(t, 0)) = 10847
        /\ PixelIndex(0, 0) = 0
        /\ bytes[1] = 95 /\ bytes[2] = 42

\* C9 (as stated): in the first render cycle pixel (0, 0) gets r5 = 31,
\* g6 = 13, b5 = 0, the word 447, and the bytes 0xBF, 0x01 at offsets 0 and 1.
C9_Original ==
    (frames = [top |-> 0, hi |-> 0, lo |-> 0] /\ Stage = "blit") =>
        /\ t = U32OfNat(0)
        /\ R5(t, 0) = 31 /\ G6(t, 0) = 13 /\ B5(t, 0) = 0
        /\ Pack(R5(t, 0), G6(t, 0), B5(t, 0)) = 447
        /\ PixelIndex(0, 0) = 0
        /\ bytes[1] = 191 /\ bytes[2] = 1

C9_Witness ==
    /\ frames = [top |-> 0, hi |-> 0, lo |-> 0] /\ Stage = "blit" /\ sub = 1
    /\ started = 1 /\ bytes[1] = 95

\* C10: the buffer has 8192 bytes in every state; every index written is in
\* 0..8191; a render pass makes 8192 stores that hit every index, so each byte
\* is written exactly once; pixel (i, j) goes to offsets 2*(i*H + j) and
\* 2*(i*H + j) + 1, its place in the W-wide row-major image; after the pass
\* every byte is the current frame's.
C10_BufferCoverage ==
    /\ DOMAIN bytes = 1..8192
    /\ \A k \in DOMAIN bytes : bytes[k] \in 0..255
    /\ failedAt # "index"
    /\ touched \subseteq 0..8191
    /\ stores = Cardinality(touched)
    /\ \A i \in 0..(SCREEN_HEIGHT - 1) : \A j \in 0..(SCREEN_WIDTH - 1) :
          /\ PixelIndex(i, j) = 2 * (i * SCREEN_HEIGHT + j)
          /\ PixelIndex(i, j) = 2 * (i * SCREEN_WIDTH + j)
          /\ PixelIndex(i, j) + 1 < 2 * SCREEN_WIDTH * SCREEN_HEIGHT
    /\ Positions("render") # {} =>
          /\ touched = 0..8191
          /\ stores = 8192
    /\ Stage = "blit" =>
          \A r \in {[i \in 0..(SCREEN_HEIGHT - 1) |-> R5(t, i)] @@ << >>} :
          \A g \in {[j \in 0..(SCREEN_WIDTH - 1) |-> G6(t, j)] @@ << >>} :
          \A b \in {[i \in 0..(SCREEN_HEIGHT - 1) |-> B5(t, i)] @@ << >>} :
             \A i \in 0..(SCREEN_HEIGHT - 1) : \A j \in 0..(SCREEN_WIDTH - 1) :
                << bytes[PixelIndex(i, j) + 1], bytes[PixelIndex(i, j) + 2] >>
                    = ToLeBytes(Pack(r[i], g[j], b[i]))

C10_Witness ==
    /\ Stage = "blit" /\ started = 2 /\ ~fatal
    /\ touched = 0..8191 /\ stores = 8192
    /\ frames.top = 0 /\ t = U32OfNat(1)

\* C11: no handler invocation begins before init has returned.  While init
\* runs interrupts stay masked, so a compare event that fires meanwhile only
\* stays pending: nothing has been rendered or blitted, and the handler has
\* touched neither the timer nor the display.  Every invocation finds the
\* display initialized, and only init's arm precedes the first one.
C11_NoInvocationBeforeInit ==
    /\ pc # "idle" =>
          /\ ~intEnabled
          /\ hpc = 0 /\ started = 0
          /\ log = << >> /\ stores = 0 /\ touched = {}
          /\ bytes = ZeroBytes /\ t = U32OfNat(0)
          /\ frames = [top |-> 0, hi |-> 0, lo |-> 0]
          /\ \A n \in 1..Len(armLog) : armLog[n].by = "init"
    /\ (started > 0 \/ hpc # 0) =>
          /\ pc = "idle"
          /\ disp.ready
          /\ failedAt \notin {"disp.init", "set_orientation", "clear"}

C11_Witness ==
    pc = "clear" /\ pending /\ event = 1 /\ ~fatal /\ started = 0

\* C12: the idle context does no work.  An idle step changes nothing but the
\* processor's sleep state; after init the buffer, the counter, the display and
\* the arm history change only in a step of a handler invocation, and the timer
\* state only in such a step or when the hardware compare fires.
C12_IdleDoesNothing ==
    [][ /\ Idle => UNCHANGED << bytes, t, disp, armed, event, pending, armLog,
                                log, hpc, sub, started, frames >>
        /\ (pc = "idle" /\ hpc = 0 /\ hpc' = 0) =>
              /\ UNCHANGED << bytes, t, disp, armLog, frames >>
              /\ (armed' # armed \/ event' # event) =>
                    (armed # 0 /\ armed' = 0 /\ event' = armed)
      ]_vars

C12_Witness ==
    asleep /\ hpc = 0 /\ started = 2 /\ ~fatal /\ ~pending /\ frames.top = 0

\* C13 (as stated): a re-arm that reports a failure is fatal: control reaches
\* the fatal handler and the handler invocation never returns.
C13_RearmFailureFatal ==
    \A n \in Positions("arm_failed") :
        fatal /\ failedAt = "fire_at" /\ hpc # 0 /\ ~intEnabled

\* C13, what happens instead: the failure is ignored, the invocation has
\* returned normally, nothing is scheduled and the processor sleeps in idle
\* with interrupts enabled and no message printed.
C13_Witness ==
    /\ Positions("arm_failed") # {}
    /\ hpc = 0 /\ ~fatal /\ diag = 0 /\ intEnabled
    /\ armed = 0 /\ event = 0 /\ ~pending /\ asleep

\* C14: the render pass is a function of the frame counter alone.  The bytes
\* stored for pixel (i, j) are those computed from (t, i, j), whatever the
\* buffer held before, and the whole buffer after a pass equals the one a pass
\* over an all-zero buffer gives for the same t, whatever the display and the
\* timer state.
C14_RenderPure ==
    /\ \A r \in {[i \in 0..(SCREEN_HEIGHT - 1) |-> R5(t, i)] @@ << >>} :
       \A g \in {[j \in 0..(SCREEN_WIDTH - 1) |-> G6(t, j)] @@ << >>} :
       \A b \in {[i \in 0..(SCREEN_HEIGHT - 1) |-> B5(t, i)] @@ << >>} :
          \A i \in 0..(RowsDone - 1) : \A j \in 0..(SCREEN_WIDTH - 1) :
             /\ bytes[PixelIndex(i, j) + 1] = Pack(r[i], g[j], b[i]) % 256
             /\ bytes[PixelIndex(i, j) + 2] = Pack(r[i], g[j], b[i]) \div 256
    /\ Stage = "blit" => bytes = Rendered(t)

C14_Witness ==
    /\ Stage = "render" /\ sub = 2
    /\ t = U32OfNat(0) /\ frames.top = 1
    /\ bytes[1] = 95 /\ bytes[2] = 42
    /\ bytes[8192] # 0

\* C15: within an invocation the buffer computation and the blits do not
\* overlap.  When the first set_offset or draw is issued the render pass is
\* over, with all 8192 stores made; from then until the fourth draw has
\* completed no step changes a buffer byte or the frame counter, and the buffer
\* the four draws send is the frame of the counter the invocation started with.
C15_NoOverlap ==
    /\ [](/\ (Blits # {} \/ Positions("set_offset") # {}) =>
                /\ Positions("render") # {}
                /\ \A n \in Positions("render") :
                      \A m \in Blits \cup Positions("set_offset") : n < m
                /\ stores = 2 * SCREEN_WIDTH * SCREEN_HEIGHT
          /\ Stage = "blit" =>
                /\ t.lo = frames.lo /\ t.hi = frames.hi
                /\ Positions("incr") = {}
                /\ \A i \in {0, SCREEN_HEIGHT - 1} : \A j \in {0, SCREEN_WIDTH - 1} :
                      << bytes[PixelIndex(i, j) + 1], bytes[PixelIndex(i, j) + 2] >>
                          = PixelBytes(t, i, j))
    /\ [][Stage = "blit" => UNCHANGED << bytes, t >>]_vars

C15_Witness ==
    /\ Stage = "blit" /\ sub = 7 /\ ~fatal
    /\ Cardinality(Positions("draw")) = 3
    /\ started = 2 /\ t = U32OfNat(1)

\* Bitwise or of two n-bit naturals.
RECURSIVE BitOr(_, _, _)
BitOr(a, b, n) ==
    IF n = 0 THEN 0
    ELSE (IF a % 2 = 1 \/ b % 2 = 1 THEN 1 ELSE 0) + 2 * BitOr(a \div 2, b \div 2, n - 1)

\* (b5 << 11) | (g6 << 5) | r5 on 16 bits.
OrWord(r5, g6, b5) ==
    BitOr(BitOr((b5 * 2048) % 65536, (g6 * 32) % 65536, 16), r5, 16)

\* The word formed by addition is the bitwise-or word for every triple of a
\* 5-bit, a 6-bit and a 5-bit channel.
PackIsOr ==
    \A r5 \in 0..31 : \A g6 \in 0..63 : \A b5 \in 0..31 :
        Pack(r5, g6, b5) = OrWord(r5, g6, b5)

\* C16: for every pixel written the byte at the even offset 2*(i*H + j) is the
\* low byte and the byte at the next, odd offset the high byte of the word
\* (b5 << 11) | (g6 << 5) | r5; the sum the handler forms equals that word for
\* every channel triple.
C16_LittleEndianOrWord ==
    /\ PackIsOr
    /\ \A r \in {[i \in 0..(SCREEN_HEIGHT - 1) |-> R5(t, i)] @@ << >>} :
       \A g \in {[j \in 0..(SCREEN_WIDTH - 1) |-> G6(t, j)] @@ << >>} :
       \A b \in {[i \in 0..(SCREEN_HEIGHT - 1) |-> B5(t, i)] @@ << >>} :
          \A i \in 0..(RowsDone - 1) : \A j \in 0..(SCREEN_WIDTH - 1) :
             \A w \in {OrWord(r[i], g[j], b[i])} :
                /\ PixelIndex(i, j) % 2 = 0
                /\ PixelIndex(i, j) = 2 * (i * SCREEN_HEIGHT + j)
                /\ bytes[PixelIndex(i, j) + 1] = w % 256
                /\ bytes[PixelIndex(i, j) + 2] = w \div 256

C16_Witness ==
    /\ Stage = "blit" /\ ~fatal
    /\ t = [hi |-> Limb - 1, lo |-> Limb - 1]
    /\ OrWord(R5(t, 0), G6(t, 0), B5(t, 0)) = 2145
    /\ bytes[1] = 97 /\ bytes[2] = 8

Outstanding == (IF armed # 0 THEN 1 ELSE 0) + (IF event # 0 THEN 1 ELSE 0)

====
